---- MODULE Spec2Model ----
(***************************************************************************)
(* Model of apps/narrative-ai/main.py: a FastAPI application with four     *)
(* routes.  Every handler is an `async def` without an await point, so a   *)
(* handler runs atomically on the event loop; requests of several clients  *)
(* may be in flight at the same time and are handled in any order.         *)
(*                                                                         *)
(* A Python dict whose values are strings is modelled as a set of          *)
(* <<key, value>> pairs ({} is the empty dict); a dict with fixed keys of  *)
(* mixed value types is a record; Optional[str] is a sequence of length    *)
(* at most one (<<>> is None).                                             *)
(***************************************************************************)
EXTENDS Integers, Sequences, FiniteSets, TLC

VARIABLES inflight, log

vars == <<inflight, log>>

\* Number of requests one behaviour receives.
MaxRequests == 3

\* Number of requests that may be in flight at once.
MaxInflight == 2

\* ---------------------------------------------------------------- inputs

\* Values of a request's story_id: str (the empty string is a str).
StoryIds == {"", "s1", "s2"}

\* Values of the path parameter of /api/story/{story_id}: a path segment
\* is never empty.
PathStoryIds == StoryIds \ {""}

\* Values of user_context: Dict.
UserContexts == {{}, {<<"name", "Ada">>}}

\* Values of previous_choice: Optional[str] = None.
PreviousChoices == {<<>>, <<"choice_1">>}

\* Values of current_scene: str.
CurrentScenes == {"scene_1"}

GenerateSceneRequest ==
    [story_id : StoryIds, user_context : UserContexts,
     previous_choice : PreviousChoices]

GenerateChoicesRequest ==
    [story_id : StoryIds, current_scene : CurrentScenes,
     user_context : UserContexts]

\* HTTP status of a handler that returns normally.
StatusOK == 200

\* ----------------------------------------------------- reference semantics

\* The previous_choice values of the successful generate_scene calls for
\* story s among the first k log entries, in the order they were handled.
RECURSIVE AppliedChoices(_, _)
AppliedChoices(s, k) ==
    IF k = 0 THEN <<>>
    ELSE LET e == log[k]
             rest == AppliedChoices(s, k - 1)
         IN  IF /\ e.req.route = "scene"
                /\ e.req.body.story_id = s
                /\ e.resp.status = StatusOK
             THEN rest \o e.req.body.previous_choice
             ELSE rest

\* Reference semantics of the story state: the choices applied to the story
\* so far, in the order of application; a story nothing was applied to has
\* the empty state.
ChoicesState(h) == IF h = <<>> THEN {} ELSE {<<"choices", h>>}

\* ------------------------------------------------------------- handlers

NarrativeResponse(text, metadata) == [text |-> text, metadata |-> metadata]

\* Variant: the health report depends on the load of the server.
health_check_busy ==
    [status |-> StatusOK,
     body |-> [status |-> IF Cardinality(inflight) > 1 THEN "busy" ELSE "healthy",
               service |-> "narrative-ai"]]

health_check ==
    [status |-> StatusOK,
     body |-> [status |-> "healthy", service |-> "narrative-ai"]]

\* Variant: the metadata lacks the token-usage count.
generate_scene_nousage(request) ==
    [status |-> StatusOK,
     body |-> NarrativeResponse(
         "Scene generation endpoint - implementation pending",
         [story_id |-> request.story_id,
          model |-> "gpt-4-turbo-preview"])]

generate_scene(request) ==
    [status |-> StatusOK,
     body |-> NarrativeResponse(
         "Scene generation endpoint - implementation pending",
         [story_id |-> request.story_id,
          model |-> "gpt-4-turbo-preview",
          tokens_used |-> 0])]

\* Variant: no choice is offered once a previous request has been answered.
generate_choices_empty(request) ==
    [status |-> StatusOK,
     body |-> [choices |->
                  IF log = <<>>
                  THEN << [id |-> "choice_1", text |-> "Choice 1 - implementation pending"] >>
                  ELSE <<>>,
               metadata |-> [story_id |-> request.story_id]]]

\* Variant: the third choice repeats the identifier of the second.
generate_choices_dup(request) ==
    [status |-> StatusOK,
     body |-> [choices |->
                  << [id |-> "choice_1", text |-> "Choice 1 - implementation pending"],
                     [id |-> "choice_2", text |-> "Choice 2 - implementation pending"],
                     [id |-> "choice_2", text |-> "Choice 3 - implementation pending"] >>,
               metadata |-> [story_id |-> request.story_id]]]

generate_choices(request) ==
    [status |-> StatusOK,
     body |-> [choices |->
                  << [id |-> "choice_1", text |-> "Choice 1 - implementation pending"],
                     [id |-> "choice_2", text |-> "Choice 2 - implementation pending"],
                     [id |-> "choice_3", text |-> "Choice 3 - implementation pending"] >>,
               metadata |-> [story_id |-> request.story_id]]]

\* Variant: the response names the story of the request answered last.
get_story_state_stale(story_id) ==
    [status |-> StatusOK,
     body |-> [story_id |-> IF log # <<>> /\ log[Len(log)].req.route = "scene"
                            THEN log[Len(log)].req.body.story_id
                            ELSE story_id,
               state |-> {},
               message |-> "Story state endpoint - implementation pending"]]

\* Variant: the lookup returns the choices the generate_scene calls stored.
get_story_state_stored(story_id) ==
    [status |-> StatusOK,
     body |-> [story_id |-> story_id,
               state |-> ChoicesState(AppliedChoices(story_id, Len(log))),
               message |-> "Story state endpoint - implementation pending"]]

get_story_state(story_id) ==
    [status |-> StatusOK,
     body |-> [story_id |-> story_id,
               state |-> {},
               message |-> "Story state endpoint - implementation pending"]]

\* ---------------------------------------------------------- state machine

\* The requests a client can send, one shape per route.
Requests ==
    {[route |-> "health"]}
    \cup {[route |-> "scene", body |-> b] : b \in GenerateSceneRequest}
    \cup {[route |-> "choices", body |-> b] : b \in GenerateChoicesRequest}
    \cup {[route |-> "story", story_id |-> s] : s \in PathStoryIds}

\* Number of requests that have reached the server so far; requests are
\* numbered in order of arrival.
Arrived == Len(log) + Cardinality(inflight)

NextId == Arrived + 1

Init ==
    /\ inflight = {}
    /\ log = <<>>

\* A client's request reaches the server and waits for the event loop.
Arrive ==
    /\ NextId <= MaxRequests
    /\ Cardinality(inflight) < MaxInflight
    /\ \E r \in Requests :
           inflight' = inflight \cup {[id |-> NextId, req |-> r]}
    /\ UNCHANGED log

\* The event loop runs the handler of request p and sends its response.  The
\* log entry keeps the request, the response and how many requests had
\* arrived when the handler ran.
Respond(p, resp) ==
    /\ inflight' = inflight \ {p}
    /\ log' = Append(log, [id |-> p.id, req |-> p.req, resp |-> resp,
                            arrived |-> Arrived])

HealthCheck ==
    \E p \in inflight :
        /\ p.req.route = "health"
        /\ Respond(p, health_check)

GenerateScene ==
    \E p \in inflight :
        /\ p.req.route = "scene"
        /\ Respond(p, generate_scene(p.req.body))

GenerateChoices ==
    \E p \in inflight :
        /\ p.req.route = "choices"
        /\ Respond(p, generate_choices(p.req.body))

GetStoryState ==
    \E p \in inflight :
        /\ p.req.route = "story"
        /\ Respond(p, get_story_state(p.req.story_id))

Next ==
    \/ Arrive
    \/ HealthCheck
    \/ GenerateScene
    \/ GenerateChoices
    \/ GetStoryState

Spec == Init /\ [][Next]_vars

\* ------------------------------------------------- observations on the log

LogIdx == 1..Len(log)

IsScene(e) == e.req.route = "scene"

IsChoices(e) == e.req.route = "choices"

IsStory(e) == e.req.route = "story"

IsHealth(e) == e.req.route = "health"

Succeeded(e) == e.resp.status = StatusOK

\* log[i] was handled before log[j] and log[j] had already arrived then:
\* the two requests were in flight together.
Concurrent(i, j) == i < j /\ log[j].id <= log[i].arrived

\* log[j] arrived only after log[i] had been answered.
Sequential(i, j) == i < j /\ log[j].id > log[i].arrived

\* The story a scene or choices call or a state lookup refers to.
StoryOf(e) == IF IsStory(e) THEN e.req.story_id ELSE e.req.body.story_id

\* ------------------------------------------------------------------ claims

\* C1: two concurrent generate_scene calls for the same story_id never lose
\* an update: a later get_story_state for that story returns the state in
\* which both calls' choices are applied in one of the two serial orders.
C1_NoLostUpdate ==
    \A i, j, k \in LogIdx :
        ( /\ Concurrent(i, j) /\ j < k
          /\ IsScene(log[i]) /\ Succeeded(log[i])
          /\ IsScene(log[j]) /\ Succeeded(log[j])
          /\ IsStory(log[k])
          /\ StoryOf(log[i]) = StoryOf(log[k])
          /\ StoryOf(log[j]) = StoryOf(log[k])
          /\ \A m \in 1..(k - 1) :
                 (IsScene(log[m]) /\ StoryOf(log[m]) = StoryOf(log[k]))
                     => m \in {i, j} )
        => LET ci == log[i].req.body.previous_choice
               cj == log[j].req.body.previous_choice
           IN  /\ Succeeded(log[k])
               /\ log[k].resp.body.state
                      \in {ChoicesState(ci \o cj), ChoicesState(cj \o ci)}

\* C2: a successful generate_scene for a non-empty story_id, followed
\* immediately by get_story_state for the same story_id, returns the state
\* with every previous_choice given so far applied, the last call's included.
C2_SceneThenStateReflectsMutation ==
    \A k \in LogIdx :
        ( /\ k > 1
          /\ Sequential(k - 1, k)
          /\ IsScene(log[k - 1]) /\ Succeeded(log[k - 1])
          /\ StoryOf(log[k - 1]) # ""
          /\ IsStory(log[k])
          /\ StoryOf(log[k]) = StoryOf(log[k - 1]) )
        => /\ Succeeded(log[k])
           /\ log[k].resp.body.state
                  = ChoicesState(AppliedChoices(StoryOf(log[k]), k - 1))

\* C3: generate_scene with an empty story_id does not return a successful
\* response (it fails with InvalidInput).
C3_EmptyStoryIdRejected ==
    \A k \in LogIdx :
        (IsScene(log[k]) /\ StoryOf(log[k]) = "")
            => ~Succeeded(log[k])

\* C4: get_story_state answers NotFound (404) for a story_id that no earlier
\* generate_scene or generate_choices call referenced.
C4_UnknownStoryNotFound ==
    \A k \in LogIdx :
        ( /\ IsStory(log[k])
          /\ ~\E i \in 1..(k - 1) :
                 /\ IsScene(log[i]) \/ IsChoices(log[i])
                 /\ StoryOf(log[i]) = StoryOf(log[k]) )
        => log[k].resp.status = 404

\* C5: a successful generate_choices response carries at least one choice,
\* for every request and after any earlier requests.
C5_ChoicesNonEmptyOnSuccess ==
    \A k \in LogIdx :
        (IsChoices(log[k]) /\ Succeeded(log[k]))
            => Len(log[k].resp.body.choices) >= 1

\* A generate_choices call answered after an earlier request.
C5_Witness ==
    \E k \in LogIdx :
        /\ k > 1
        /\ IsChoices(log[k]) /\ Succeeded(log[k])
        /\ Len(log[k].resp.body.choices) = 3

\* C6: the choice identifiers of one generate_choices response are pairwise
\* distinct.
C6_ChoiceIdsDistinct ==
    \A k \in LogIdx :
        IsChoices(log[k])
            => LET cs == log[k].resp.body.choices
               IN  \A a, b \in DOMAIN cs : a # b => cs[a].id # cs[b].id

\* A generate_choices response with several choices, after an earlier
\* generate_choices response.
C6_Witness ==
    \E i, k \in LogIdx :
        /\ i < k
        /\ IsChoices(log[i]) /\ IsChoices(log[k])
        /\ Len(log[k].resp.body.choices) > 1
        /\ log[k].resp.body.choices[1].id = "choice_1"

\* C7: every health response is exactly {status: "healthy", service:
\* "narrative-ai"} with a success status, whatever was handled before and
\* whatever is in flight.
C7_HealthAlwaysHealthy ==
    \A k \in LogIdx :
        IsHealth(log[k])
            => /\ Succeeded(log[k])
               /\ log[k].resp.body
                      = [status |-> "healthy", service |-> "narrative-ai"]

\* A health check answered after a scene call while another request is in
\* flight.
C7_Witness ==
    \E i, k \in LogIdx :
        /\ i < k
        /\ IsScene(log[i])
        /\ IsHealth(log[k])
        /\ log[k].arrived > k
        /\ inflight # {}

\* C8: a successful generate_scene response has a non-empty text and a
\* metadata mapping with the model identifier and a token-usage count.
C8_SceneResponseWellFormed ==
    \A k \in LogIdx :
        (IsScene(log[k]) /\ Succeeded(log[k]))
            => LET r == log[k].resp.body
               IN  /\ DOMAIN r = {"text", "metadata"}
                   /\ r.text # ""
                   /\ {"model", "tokens_used"} \subseteq DOMAIN r.metadata
                   /\ r.metadata.model # ""
                   /\ r.metadata.tokens_used \in Nat

\* A successful generate_scene response to a request with a previous_choice
\* and a non-empty user_context.
C8_Witness ==
    \E k \in LogIdx :
        /\ IsScene(log[k]) /\ Succeeded(log[k])
        /\ log[k].req.body.previous_choice # <<>>
        /\ log[k].req.body.user_context # {}
        /\ log[k].resp.body.metadata.tokens_used = 0

\* C9: every response names the story_id of its own request: in the
\* metadata for generate_scene and generate_choices, at the top level for
\* get_story_state.
C9_ResponseEchoesStoryId ==
    \A k \in LogIdx :
        /\ (IsScene(log[k]) \/ IsChoices(log[k]))
               => log[k].resp.body.metadata.story_id = log[k].req.body.story_id
        /\ IsStory(log[k])
               => log[k].resp.body.story_id = log[k].req.story_id

\* Requests for two different stories in flight together and answered in
\* the opposite order of their arrival.
C9_Witness ==
    \E i, j \in LogIdx :
        /\ Concurrent(i, j)
        /\ log[i].id > log[j].id
        /\ ~IsHealth(log[i]) /\ ~IsHealth(log[j])
        /\ StoryOf(log[i]) # StoryOf(log[j])
        /\ IsStory(log[i]) \/ IsStory(log[j])

====
